---- MODULE Spec2Model ----
(***************************************************************************)
(* Connection discovery, the authenticated request dispatcher and the      *)
(* session manager of the vehicle-diagnostics mobile client.               *)
(*                                                                         *)
(*   utils/connectionTest.ts  testSingleConnection, testBackendConnection  *)
(*   utils/apiConfig.ts       testConnection, findWorkingConnection        *)
(*   utils/api.ts             findWorkingApiUrl, apiCall, uploads          *)
(*   context/AuthContext.tsx  signIn, signUp, signOut, mechanic calls      *)
(*                                                                         *)
(* Every await of the source is a point where another handler may run, so  *)
(* a handler is one action per stretch of code between two awaits on the   *)
(* network; AsyncStorage writes and removals are taken to complete.        *)
(***************************************************************************)
EXTENDS Integers, Sequences, FiniteSets, Bags, TLC

VARIABLES
    platform,       \* Platform.OS
    cloudUrl,       \* CLOUD_BACKEND_URL as deployed
    dKind,          \* the discovery call in progress, "none" when there is none
    dUrls,          \* possibleUrls of that call
    dIdx,           \* position of its for-loop in possibleUrls
    dProbes,        \* the GET <url>/health requests it has issued, with their outcome
    dResult,        \* what the call returned
    netConnected,   \* NetInfo: state.isConnected
    stToken,        \* AsyncStorage "authToken"
    stUser,         \* AsyncStorage "user"
    localUsers,     \* rows of the SQLite table users
    dynUrl,         \* api.ts DYNAMIC_API_BASE_URL
    calls,          \* api.ts calls in progress
    socket,         \* api.ts connectToNotifications: the call in progress or last made
    loops,          \* findWorkingConnection runs begun so far
    writes,         \* assignments to DYNAMIC_API_BASE_URL so far
    apiUrl,         \* AuthProvider state apiUrl
    findApiPc,      \* the provider's findApi effect: "idle", "running", "done"
    user,           \* AuthProvider state user
    token,          \* AuthProvider state token
    isLoading,      \* AuthProvider state isLoading
    isInitialized,  \* AuthProvider state isInitialized
    isMechanicVerified, \* AuthProvider state isMechanicVerified
    ops,            \* AuthProvider calls awaiting their HTTP response (a bag)
    last,           \* the call that completed last, and what it did
    before,         \* whether the call completed before it was a signIn that
                    \* succeeded on an empty session
    quiet,          \* signOut has completed and no signIn or signUp was started since
    isConnected,    \* DiagnosticsProvider state isConnected
    connectionStatus, \* DiagnosticsProvider state connectionStatus
    diagLoading,    \* DiagnosticsProvider state isLoading
    diagError,      \* DiagnosticsProvider state error
    vehicleData,    \* DiagnosticsProvider state vehicleData: null, the sample, live data
    diagnosticCodes, \* DiagnosticsProvider state diagnosticCodes: how many, how many active
    connects,       \* connect() calls awaiting their timer (a bag)
    notifications,  \* NotificationsProvider state notifications, newest first
    notificationsEnabled, \* NotificationsProvider state notificationsEnabled
    timers,         \* the expiry timers armed by addNotification
    toSweep,        \* time left until the periodic clean-up is due
    nextId,         \* the id of the next notification added
    addCalls,       \* how many times addNotification was called
    removedNow,     \* the notifications the last step removed, and what removed them
    fontPc,         \* where loadFontsWithRetry is: idle, loading, waiting, returned
    maxRetries,     \* its argument
    attempt,        \* its loop variable
    lastError,      \* its local lastError
    fontResult,     \* what it returned
    fontErrors,     \* the errors of the loadFonts calls it made, in order
    fontDelays      \* the delays it waited for, in order

discVars == <<dKind, dUrls, dIdx, dProbes, dResult>>
envVars == <<platform, cloudUrl>>
storeVars == <<stToken, stUser, localUsers>>
apiVars == <<dynUrl, calls, socket, loops, writes>>
startVars == <<apiUrl, findApiPc>>
authVars == <<user, token, isLoading, isInitialized, isMechanicVerified, ops>>
histVars == <<last, before, quiet>>
diagVars == <<isConnected, connectionStatus, diagLoading, diagError, vehicleData,
              diagnosticCodes, connects>>
noteVars == <<notifications, notificationsEnabled, timers, toSweep, nextId, addCalls,
              removedNow>>
fontVars == <<fontPc, maxRetries, attempt, lastError, fontResult, fontErrors, fontDelays>>
uiVars == <<diagVars, noteVars, fontVars>>
appVars == <<netConnected, storeVars, apiVars, startVars, authVars, histVars, uiVars>>
\* everything outside the providers of the user interface
coreVars == <<envVars, discVars, netConnected, storeVars, apiVars, startVars, authVars,
              histVars>>
vars == <<envVars, discVars, appVars>>

\* null of a string-valued place (a URL, a result) and of a record-valued one
\* (a token, a user)
Null == "null"
None == [kind |-> "none"]
Pending == "pending"
Threw == "threw"

----------------------------------------------------------------------------
(* utils/apiConfig.ts and utils/connectionTest.ts: the candidate lists      *)

Platforms == {"web", "android", "ios"}
CloudPlaceholder == "https://your-app-name.onrender.com/api"
CloudDeployed == "https://cloud.example/api"

\* What one GET <url>/health can end in: a 2xx status with a JSON body, a 2xx
\* status with a body that is not JSON, a non-2xx status, a rejected fetch,
\* and the abort of the call's own timer.
ProbeOutcomes == {"ok_json", "ok_other", "status_err", "network_error", "timeout"}

\* response.ok
SuccessStatus(o) == o \in {"ok_json", "ok_other"}

machineIPs ==
    << "http://192.168.1.100:8000/api", "http://192.168.0.100:8000/api",
       "http://192.168.114.97:8000/api", "http://10.0.0.100:8000/api" >>

getPossibleBackendUrls(os) ==
    ( CASE os = "web" -> << "http://localhost:8000/api", "http://127.0.0.1:8000/api" >>
        [] os = "android" -> << "http://10.0.2.2:8000/api", "http://localhost:8000/api",
                                "http://127.0.0.1:8000/api" >>
        [] os = "ios" -> << "http://localhost:8000/api", "http://127.0.0.1:8000/api" >>
        [] OTHER -> << >> )
    \o machineIPs

findWorkingConnectionUrls(os, cloud) ==
    (IF cloud # CloudPlaceholder THEN << cloud >> ELSE << >>)
    \o ( CASE os = "android" -> << "http://localhost:8000/api", "http://10.0.2.2:8000/api",
                                   "http://127.0.0.1:8000/api", "http://192.168.1.100:8000/api" >>
           [] os = "ios" -> << "http://localhost:8000/api", "http://127.0.0.1:8000/api",
                               "http://192.168.1.100:8000/api" >>
           [] OTHER -> << >> )

\* Every URL findWorkingConnection can probe
CandidateUrls ==
    {CloudDeployed, "http://localhost:8000/api", "http://10.0.2.2:8000/api",
     "http://127.0.0.1:8000/api", "http://192.168.1.100:8000/api"}

getApiBaseUrl(os, cloud) ==
    IF cloud # CloudPlaceholder THEN cloud ELSE "http://localhost:8000/api"

\* AuthContext.tsx: let API_BASE_URL = getApiBaseUrl(), evaluated at import
API_BASE_URL == getApiBaseUrl(platform, cloudUrl)

----------------------------------------------------------------------------
(* One health probe: "true" and "false" are the value returned, "throw" an  *)
(* exception leaving the function.                                          *)

\* apiConfig.ts testConnection: response.ok, and false from the catch.
testConnection(o) ==
    IF o \in {"network_error", "timeout"} THEN "false"
    ELSE IF SuccessStatus(o) THEN "true" ELSE "false"

\* testSingleConnection with its try/catch left out: a rejected fetch leaves it.
testSingleConnectionNoCatch(o) ==
    IF o \in {"network_error", "timeout"} THEN "throw"
    ELSE IF o = "ok_json" THEN "true" ELSE "false"

\* connectionTest.ts testSingleConnection: on response.ok the body is parsed
\* inside the try, so a body that is not JSON lands in the catch.
testSingleConnection(o) ==
    IF o \in {"network_error", "timeout"} THEN "false"
    ELSE IF SuccessStatus(o)
         THEN (IF o = "ok_json" THEN "true" ELSE "false")
         ELSE "false"

probe(kind, o) ==
    IF kind = "findWorkingConnection" THEN testConnection(o) ELSE testSingleConnection(o)

----------------------------------------------------------------------------
(* The two discovery loops                                                  *)

findWorkingConnectionStart ==
    /\ dKind = "none"
    /\ dKind' = "findWorkingConnection"
    /\ dUrls' = findWorkingConnectionUrls(platform, cloudUrl)
    /\ dIdx' = 1
    /\ dProbes' = << >>
    /\ dResult' = Pending
    /\ UNCHANGED <<envVars, appVars>>

testBackendConnectionStart ==
    /\ dKind = "none"
    /\ dKind' = "testBackendConnection"
    /\ dUrls' = getPossibleBackendUrls(platform)
    /\ dIdx' = 1
    /\ dProbes' = << >>
    /\ dResult' = Pending
    /\ UNCHANGED <<envVars, appVars>>

\* A loop that tries a candidate again when its probe timed out
discoveryIterateRetries(o) ==
    LET url == dUrls[dIdx]
        r == probe(dKind, o)
    IN /\ dProbes' = Append(dProbes, [url |-> url, outcome |-> o])
       /\ IF r = "true"
          THEN dResult' = url /\ dIdx' = dIdx
          ELSE IF o = "timeout"
               THEN dResult' = Pending /\ dIdx' = dIdx
               ELSE dResult' = Pending /\ dIdx' = dIdx + 1

\* One iteration of `for (const url of possibleUrls)`: the awaited probe and
\* what the loop body does with its result. findWorkingConnection wraps the
\* probe in a try/catch of its own and goes on; testBackendConnection has
\* none, so an exception would leave it.
discoveryIterate(o) ==
    LET url == dUrls[dIdx]
        r == probe(dKind, o)
    IN /\ dProbes' = Append(dProbes, [url |-> url, outcome |-> o])
       /\ IF r = "true"
          THEN dResult' = url /\ dIdx' = dIdx
          ELSE IF r = "throw" /\ dKind = "testBackendConnection"
               THEN dResult' = Threw /\ dIdx' = dIdx
               ELSE dResult' = Pending /\ dIdx' = dIdx + 1

discoveryStep ==
    /\ dKind # "none"
    /\ dResult = Pending
    /\ dIdx <= Len(dUrls)
    /\ \E o \in ProbeOutcomes : discoveryIterate(o)
    /\ UNCHANGED <<dKind, dUrls, envVars, appVars>>

\* The loop ran off the end of the list: `return null`, and success: false.
discoveryExhausted ==
    /\ dKind # "none"
    /\ dResult = Pending
    /\ dIdx > Len(dUrls)
    /\ dResult' = Null
    /\ UNCHANGED <<dKind, dUrls, dIdx, dProbes, envVars, appVars>>

\* The caller has the result; the next call builds its list afresh.
discoveryReturn ==
    /\ dKind # "none"
    /\ dResult # Pending
    /\ dKind' = "none"
    /\ dUrls' = << >>
    /\ dIdx' = 1
    /\ dProbes' = << >>
    /\ dResult' = Pending
    /\ UNCHANGED <<envVars, appVars>>

----------------------------------------------------------------------------
(* Values: users, tokens, HTTP outcomes, error messages                     *)

MaxCalls == 1
MaxOps == 1

Calls == 1..MaxCalls

Emails == {"a@b.com", "c@d.com"}
Passwords == {"secret1", "secret2"}
\* data.user of the login or registration answer for an email: the server's
\* account of that email, the first a car owner and the second a mechanic
UserOf(email) ==
    IF email = "a@b.com"
    THEN [kind |-> "user", id |-> 1, email |-> email, role |-> "user"]
    ELSE [kind |-> "user", id |-> 2, email |-> email, role |-> "mechanic"]

Users == {UserOf(e) : e \in Emails}

\* data.access_token, and the token signIn makes up when offline,
\* `offline_${Date.now()}_${Math.random().toString(36).substring(2)}`
ServerToken(id) == [kind |-> "jwt", id |-> id]
OfflineToken == [kind |-> "offline", id |-> 0]

\* What an API request can end in: 2xx with a JSON body, 2xx with another
\* body, 401, another non-2xx status whose body is JSON with a detail, is JSON
\* without one, or is not JSON, a rejected fetch, and the abort by the
\* request's own timer (fetchWithTimeout only).
HttpOutcomes ==
    {"ok_json", "ok_other", "unauthorized", "error_detail", "error_nodetail",
     "error_plain", "network_error", "timeout"}
\* a bare fetch has no timer
FetchOutcomes == HttpOutcomes \ {"timeout"}

ResponseOk(o) == o \in {"ok_json", "ok_other"}
Rejected(o) == o \in {"network_error", "timeout"}

Ok == "ok"
NotAuthenticatedMsg == "Not authenticated"
FetchFailedMsg == "Network request failed"
AbortedMsg == "Aborted"
JsonParseMsg == "JSON Parse error"
ServerDetail == "detail sent by the server"
ServerText == "text sent by the server"
UploadFailedMsg == "Network request failed - check your connection"
OfflineAuthMsg == "Cannot authenticate while offline. No matching local account found."
OfflineRegisterMsg ==
    "Cannot register while offline. Please connect to the internet and try again."
OfflineUpdateMsg ==
    "Cannot update profile while offline. Please connect to the internet and try again."
OfflineUploadMsg ==
    "Cannot upload certificate while offline. Please connect to the internet and try again."

\* The exception a rejected fetch raises
RejectionMsg(o) == IF o = "timeout" THEN AbortedMsg ELSE FetchFailedMsg

\* The failure kinds of the error taxonomy, by the message a caller receives
\* (diagnose/index.tsx tells NotAuthenticated by this very text).
IsNotAuthenticated(msg) == msg = NotAuthenticatedMsg
IsNetworkError(msg) == msg \in {FetchFailedMsg, AbortedMsg, UploadFailedMsg}

----------------------------------------------------------------------------
(* The record of a completed call                                           *)

SessionState == <<stToken, stUser, localUsers, user, token>>
Authenticated == user # None /\ token # None
SessionEmpty == stToken = None /\ stUser = None /\ user = None /\ token = None

\* op and result name the call and the value it returned or the message of the
\* error it threw; removes counts its removeItem("authToken") calls; hit tells
\* of an offline signIn, and of an online signIn that failed, that the table
\* held a row of its email and password;
\* fromEmpty tells of a successful signIn that it found the session empty;
\* again tells of a signOut that the call completed before it was a signOut;
\* exchange tells of an online signIn or signUp whether its request ended in
\* a parsed 2xx answer ("ok") or not ("failed"); changed tells whether the
\* completing step changed storage, cache or the in-memory user and token.
NoCall ==
    [op |-> "none", result |-> Null, removes |-> 0, hit |-> FALSE,
     fromEmpty |-> FALSE, again |-> FALSE, exchange |-> "none", changed |-> FALSE]

\* A call `op` completing now with `result`
Done(op, result) == [NoCall EXCEPT !.op = op, !.result = result]

\* `l` becomes the call that completed last; `before` tells whether the call
\* before it was a signIn that succeeded on an empty session
Complete(l) ==
    /\ last' = [l EXCEPT !.changed = (SessionState' # SessionState)]
    /\ before' = last.fromEmpty
    /\ quiet' = IF l.op = "signOut" THEN TRUE
                ELSE IF l.op \in {"signIn", "signUp"} /\ l.exchange = "none" THEN FALSE
                ELSE quiet

----------------------------------------------------------------------------
(* utils/api.ts: the request dispatcher                                     *)

DispatcherOps == {"apiCall", "analyzeDashboardImage", "analyzeEngineSound"}
Uploads == {"analyzeDashboardImage", "analyzeEngineSound"}

JsonType == "application/json"
MultipartType == "multipart/form-data"

\* The body each operation sends: a FormData for the three uploads, a JSON
\* string (or, for a GET, nothing) for every other request
BodyOf(op) ==
    IF op \in {"uploadCertificate", "analyzeDashboardImage", "analyzeEngineSound"}
    THEN "multipart" ELSE "json"

\* The Content-Type the operation itself writes in its headers, Null for none
OwnContentType(op) ==
    CASE op \in {"signIn", "signUp", "updateMechanicInfo"} -> JsonType
      [] op \in {"analyzeDashboardImage", "analyzeEngineSound"} -> MultipartType
      [] OTHER -> Null

\* fetchWithTimeout and apiCall both build their headers as
\* { "Content-Type": "application/json", ...options.headers }: the caller's
\* Content-Type wins when there is one, whatever the body is
defaultedContentType(own) == IF own # Null THEN own ELSE JsonType

\* The Content-Type on the wire: the session manager sends through
\* fetchWithTimeout, apiCall defaults its own headers, the two analysis
\* uploads call fetch directly with the headers they wrote
ContentTypeSent(op) ==
    IF op \in {"analyzeDashboardImage", "analyzeEngineSound"}
    THEN OwnContentType(op)
    ELSE defaultedContentType(OwnContentType(op))

IdleCall ==
    [op |-> "none", pc |-> "idle", url |-> Null, sentAuth |-> None,
     tokenAtSend |-> None, readOk |-> TRUE, contentType |-> Null]

\* What findWorkingConnection returns when exactly the candidates in `healthy`
\* pass their probe: the first of them in list order, or null.
findWorkingConnectionResult(urls, healthy) ==
    LET hits == {i \in 1..Len(urls) : urls[i] \in healthy}
    IN IF hits = {} THEN Null
       ELSE urls[CHOOSE i \in hits : \A j \in hits : i <= j]

\* getAuthToken: the persisted token, or null when the storage read throws
getAuthToken(readOk) == IF readOk THEN stToken ELSE None

\* A dispatcher that never attaches the header
authorizationHeaderNever(tok) == None

\* apiCall's header spread ...(token && { Authorization: `Bearer ${token}` }):
\* the token carried, None for no Authorization header
authorizationHeader(tok) == IF tok # None THEN tok ELSE None

\* apiCall after its fetch settled with `o`: the value returned or the
\* message of the error thrown, and whether "authToken" was removed
apiCallNoClear(o) ==
    [result |-> ( CASE o = "network_error" -> FetchFailedMsg
                    [] o = "ok_json" -> Ok
                    [] o = "ok_other" -> JsonParseMsg
                    [] o = "unauthorized" -> NotAuthenticatedMsg
                    [] o = "error_detail" -> ServerDetail
                    [] o = "error_nodetail" -> "API request failed"
                    [] OTHER -> "Network error" ),
     removes |-> 0]

\* An apiCall that removes the token on every status that is not 2xx
apiCallClearsOnAnyError(o) ==
    [result |-> ( CASE o = "network_error" -> FetchFailedMsg
                    [] o = "ok_json" -> Ok
                    [] o = "ok_other" -> JsonParseMsg
                    [] o = "unauthorized" -> NotAuthenticatedMsg
                    [] o = "error_detail" -> ServerDetail
                    [] o = "error_nodetail" -> "API request failed"
                    [] OTHER -> "Network error" ),
     removes |-> IF o \in {"unauthorized", "error_detail", "error_nodetail", "error_plain"}
                 THEN 1 ELSE 0]

apiCallSettle(o) ==
    [result |-> ( CASE o = "network_error" -> FetchFailedMsg
                    [] o = "ok_json" -> Ok
                    [] o = "ok_other" -> JsonParseMsg
                    [] o = "unauthorized" -> NotAuthenticatedMsg
                    [] o = "error_detail" -> ServerDetail
                    [] o = "error_nodetail" -> "API request failed"
                    [] OTHER -> "Network error" ),
     removes |-> IF o = "unauthorized" THEN 1 ELSE 0]

\* analyzeDashboardImage / analyzeEngineSound after the fetch settled: the
\* fetch, both throws of the !response.ok branch and response.json() sit in
\* one try whose catch throws "Network request failed - check your connection"
uploadSettle(o) ==
    [result |-> IF o = "ok_json" THEN Ok ELSE UploadFailedMsg,
     removes |-> IF o = "unauthorized" THEN 1 ELSE 0]

settle(op, o) == IF op = "apiCall" THEN apiCallSettle(o) ELSE uploadSettle(o)

IdleSocket == [pc |-> "idle", base |-> Null]

\* The call begins: await getWorkingApiBaseUrl(). With the URL cached,
\* findWorkingApiUrl returns it; otherwise it awaits findWorkingConnection.
callStart(c, op) ==
    /\ isInitialized
    /\ calls[c].pc = "idle"
    /\ calls' = [calls EXCEPT ![c] =
            IF dynUrl # Null
            THEN [IdleCall EXCEPT !.op = op, !.pc = "resolved", !.url = dynUrl]
            ELSE [IdleCall EXCEPT !.op = op, !.pc = "discovering"]]
    /\ loops' = IF dynUrl # Null THEN loops ELSE loops + 1
    /\ UNCHANGED <<envVars, uiVars, startVars, discVars, netConnected, storeVars, dynUrl, socket,
                   writes, authVars, histVars>>

\* findWorkingApiUrl after findWorkingConnection returned: the URL found, or
\* the fallback getApiBaseUrl(), is cached and returned.
findWorkingApiUrlDone(c, healthy) ==
    /\ calls[c].pc = "discovering"
    /\ LET workingUrl == findWorkingConnectionResult(
                             findWorkingConnectionUrls(platform, cloudUrl), healthy)
           url == IF workingUrl # Null THEN workingUrl
                  ELSE getApiBaseUrl(platform, cloudUrl)
       IN /\ dynUrl' = url
          /\ calls' = [calls EXCEPT ![c].pc = "resolved", ![c].url = url]
    /\ writes' = writes + 1
    /\ UNCHANGED <<envVars, uiVars, startVars, discVars, netConnected, storeVars, socket, loops,
                   authVars, histVars>>

\* connectToNotifications begins with the same await getWorkingApiBaseUrl().
\* One such call is followed at a time; base is the URL it was given (the
\* WebSocket URL is built from it).
connectToNotificationsStart ==
    /\ isInitialized
    /\ socket.pc # "discovering"
    /\ socket' = IF dynUrl # Null THEN [pc |-> "open", base |-> dynUrl]
                 ELSE [pc |-> "discovering", base |-> Null]
    /\ loops' = IF dynUrl # Null THEN loops ELSE loops + 1
    /\ UNCHANGED <<envVars, uiVars, startVars, discVars, netConnected, storeVars, dynUrl, calls,
                   writes, authVars, histVars>>

\* findWorkingApiUrl, awaited by connectToNotifications, finishes
connectToNotificationsDone(healthy) ==
    /\ socket.pc = "discovering"
    /\ LET workingUrl == findWorkingConnectionResult(
                             findWorkingConnectionUrls(platform, cloudUrl), healthy)
           url == IF workingUrl # Null THEN workingUrl
                  ELSE getApiBaseUrl(platform, cloudUrl)
       IN /\ dynUrl' = url
          /\ socket' = [pc |-> "open", base |-> url]
    /\ writes' = writes + 1
    /\ UNCHANGED <<envVars, uiVars, startVars, discVars, netConnected, storeVars, calls, loops,
                   authVars, histVars>>

\* await getAuthToken(), then the request goes out. An upload without a
\* token throws "Not authenticated" instead of sending anything.
callSend(c, readOk) ==
    /\ calls[c].pc = "resolved"
    /\ UNCHANGED <<envVars, uiVars, startVars, discVars, netConnected, storeVars, dynUrl, socket,
                   loops, writes, authVars>>
    /\ LET tok == getAuthToken(readOk)
       IN IF calls[c].op \in Uploads /\ tok = None
          THEN /\ calls' = [calls EXCEPT ![c] = IdleCall]
               /\ Complete(Done(calls[c].op, NotAuthenticatedMsg))
          ELSE /\ calls' = [calls EXCEPT ![c].pc = "sent",
                                         ![c].sentAuth = authorizationHeader(tok),
                                         ![c].contentType = ContentTypeSent(calls[c].op),
                                         ![c].tokenAtSend = stToken,
                                         ![c].readOk = readOk]
               /\ UNCHANGED histVars

\* The fetch settles; on a 401 AsyncStorage.removeItem("authToken") runs.
callSettle(c, o) ==
    /\ calls[c].pc = "sent"
    /\ UNCHANGED <<envVars, uiVars, startVars, discVars, netConnected, stUser, localUsers, dynUrl,
                   socket, loops, writes, authVars>>
    /\ LET r == settle(calls[c].op, o)
       IN /\ stToken' = IF r.removes > 0 THEN None ELSE stToken
          /\ calls' = [calls EXCEPT ![c] = IdleCall]
          /\ Complete([Done(calls[c].op, r.result) EXCEPT !.removes = r.removes])

----------------------------------------------------------------------------
(* context/AuthContext.tsx: the session manager                             *)

\* A call awaiting its response: what it is, the credentials it was given,
\* the token it put in its Authorization header
Request(op, email, password, auth) ==
    [op |-> op, email |-> email, password |-> password, auth |-> auth,
     body |-> BodyOf(op), contentType |-> ContentTypeSent(op)]

\* Room for one more call in flight
CanSend == BagCardinality(ops) < MaxOps

\* SELECT * FROM users WHERE email = ? AND password = ?
MatchingRows(email, password) ==
    {r \in localUsers : r.email = email /\ r.password = password}

\* A lookup by email alone
checkLocalUserByEmail(email, password, dbOk) ==
    IF dbOk /\ {r \in localUsers : r.email = email} # {}
    THEN LET r == CHOOSE x \in localUsers : x.email = email
         IN [kind |-> "user", id |-> r.id, email |-> r.email, role |-> r.role]
    ELSE None

\* A lookup that takes any row of the table
checkLocalUserAnyRow(email, password, dbOk) ==
    IF dbOk /\ localUsers # {}
    THEN LET r == CHOOSE x \in localUsers : TRUE
         IN [kind |-> "user", id |-> r.id, email |-> r.email, role |-> r.role]
    ELSE None

\* checkLocalUser: the user of the matching row, null when there is none and
\* (from its catch) when the database cannot be opened or queried
checkLocalUser(email, password, dbOk) ==
    IF dbOk /\ MatchingRows(email, password) # {}
    THEN LET r == CHOOSE x \in MatchingRows(email, password) : TRUE
         IN [kind |-> "user", id |-> r.id, email |-> r.email, role |-> r.role]
    ELSE None

\* An insert that keeps the row the table already has for the id or the email
saveLocalUserKeepsOld(u, password, dbOk) ==
    IF dbOk /\ {r \in localUsers : r.id = u.id \/ r.email = u.email} = {}
    THEN localUsers
         \cup {[id |-> u.id, email |-> u.email, password |-> password, role |-> u.role]}
    ELSE localUsers

\* An insert into a table without its two keys: the new row is added to
\* whatever is there
saveLocalUserAppends(u, password, dbOk) ==
    IF dbOk
    THEN localUsers
         \cup {[id |-> u.id, email |-> u.email, password |-> password, role |-> u.role]}
    ELSE localUsers

\* saveLocalUser: INSERT OR REPLACE under PRIMARY KEY id and UNIQUE email; an
\* error is logged and swallowed, the table left as it was
saveLocalUser(u, password, dbOk) ==
    IF dbOk
    THEN {r \in localUsers : r.id # u.id /\ r.email # u.email}
         \cup {[id |-> u.id, email |-> u.email, password |-> password, role |-> u.role]}
    ELSE localUsers

\* The error signIn / signUp throw for a request that did not end in a parsed
\* 2xx answer: the fetch's own exception, the body's detail, the body's text,
\* or the default
authFailure(o, default) ==
    CASE Rejected(o) -> RejectionMsg(o)
      [] o = "ok_other" -> JsonParseMsg
      [] o \in {"unauthorized", "error_detail"} -> ServerDetail
      [] o = "error_plain" -> ServerText
      [] OTHER -> default

\* signIn while NetInfo reports no connection: the local account check, and
\* on a match the session with a made-up offline token
signInOffline(email, password, dbOk) ==
    /\ isInitialized
    /\ ~netConnected
    /\ isLoading' = FALSE
    /\ UNCHANGED <<ops, netConnected, localUsers, isInitialized, isMechanicVerified,
                   envVars, uiVars, startVars, discVars, apiVars>>
    /\ LET localUser == checkLocalUser(email, password, dbOk)
           rec == [Done("signIn", Ok) EXCEPT !.hit = (MatchingRows(email, password) # {})]
       IN IF localUser # None
          THEN /\ user' = localUser
               /\ token' = OfflineToken
               /\ stToken' = OfflineToken
               /\ stUser' = localUser
               /\ Complete([rec EXCEPT !.fromEmpty = SessionEmpty])
          ELSE /\ UNCHANGED <<user, token, stToken, stUser>>
               /\ Complete([rec EXCEPT !.result = OfflineAuthMsg])

\* signIn while connected: POST /auth/login is sent
signInOnline(email, password) ==
    /\ isInitialized
    /\ netConnected
    /\ CanSend
    /\ isLoading' = TRUE
    /\ ops' = ops (+) SetToBag({Request("signIn", email, password, None)})
    /\ quiet' = FALSE
    /\ UNCHANGED <<envVars, uiVars, startVars, discVars, netConnected, storeVars, apiVars, user, token,
                   isInitialized, isMechanicVerified, last, before>>

\* What signIn and signUp do with a parsed 2xx answer carrying user u
establish(r, o, u, dbOk, default) ==
    LET rec == [Done(r.op, Ok) EXCEPT
                    !.exchange = IF o = "ok_json" THEN "ok" ELSE "failed"]
    IN /\ IF o = "ok_json"
          THEN /\ stToken' = ServerToken(u.id)
               /\ stUser' = u
               /\ localUsers' = saveLocalUser(u, r.password, dbOk)
               /\ token' = ServerToken(u.id)
               /\ user' = u
               /\ Complete([rec EXCEPT
                                !.fromEmpty = (r.op = "signIn" /\ SessionEmpty)])
          ELSE /\ UNCHANGED <<storeVars, user, token>>
               /\ Complete([rec EXCEPT
                                !.result = authFailure(o, default),
                                !.hit = ( /\ r.op = "signIn"
                                          /\ MatchingRows(r.email, r.password) # {} )])
       /\ isLoading' = FALSE
       /\ ops' = ops (-) SetToBag({r})

\* A signIn that turns to the cache when the server exchange fails
signInSettleFallsBack(r, o, u, dbOk) ==
    /\ BagIn(r, ops)
    /\ r.op = "signIn"
    /\ u.email = r.email
    /\ (o # "ok_json" => dbOk)
    /\ UNCHANGED <<envVars, uiVars, startVars, discVars, netConnected, apiVars, isInitialized,
                   isMechanicVerified>>
    /\ IF o # "ok_json" /\ checkLocalUser(r.email, r.password, TRUE) # None
       THEN /\ user' = checkLocalUser(r.email, r.password, TRUE)
            /\ token' = OfflineToken
            /\ stToken' = OfflineToken
            /\ stUser' = checkLocalUser(r.email, r.password, TRUE)
            /\ UNCHANGED localUsers
            /\ isLoading' = FALSE
            /\ ops' = ops (-) SetToBag({r})
            /\ Complete([Done("signIn", Ok) EXCEPT !.hit = TRUE, !.exchange = "failed"])
       ELSE establish(r, o, u, dbOk, "Login failed")

\* The answer to POST /auth/login arrives; data.user is u; dbOk tells whether
\* saveLocalUser's insert works, which only a parsed 2xx answer gets to try
signInSettle(r, o, u, dbOk) ==
    /\ BagIn(r, ops)
    /\ r.op = "signIn"
    /\ u.email = r.email
    /\ (o # "ok_json" => dbOk)
    /\ establish(r, o, u, dbOk, "Login failed")
    /\ UNCHANGED <<envVars, uiVars, startVars, discVars, netConnected, apiVars, isInitialized,
                   isMechanicVerified>>

\* A signUp that sends POST /auth/register whatever NetInfo reports
signUpIgnoresNetInfo(email, password) ==
    /\ isInitialized
    /\ ~netConnected
    /\ isLoading' = TRUE
    /\ CanSend
    /\ ops' = ops (+) SetToBag({Request("signUp", email, password, None)})
    /\ quiet' = FALSE
    /\ UNCHANGED <<envVars, uiVars, startVars, discVars, netConnected, storeVars, apiVars, user, token,
                   isInitialized, isMechanicVerified, last, before>>

\* signUp while NetInfo reports no connection
signUpOffline(email, password) ==
    /\ isInitialized
    /\ ~netConnected
    /\ isLoading' = FALSE
    /\ UNCHANGED <<ops, netConnected, storeVars, user, token, isInitialized,
                   isMechanicVerified, envVars, uiVars, startVars, discVars, apiVars>>
    /\ Complete(Done("signUp", OfflineRegisterMsg))

\* signUp while connected: POST /auth/register is sent
signUpOnline(email, password) ==
    /\ isInitialized
    /\ netConnected
    /\ CanSend
    /\ isLoading' = TRUE
    /\ ops' = ops (+) SetToBag({Request("signUp", email, password, None)})
    /\ quiet' = FALSE
    /\ UNCHANGED <<envVars, uiVars, startVars, discVars, netConnected, storeVars, apiVars, user, token,
                   isInitialized, isMechanicVerified, last, before>>

signUpSettle(r, o, u, dbOk) ==
    /\ BagIn(r, ops)
    /\ r.op = "signUp"
    /\ u.email = r.email
    /\ (o # "ok_json" => dbOk)
    /\ establish(r, o, u, dbOk, "Registration failed")
    /\ UNCHANGED <<envVars, uiVars, startVars, discVars, netConnected, apiVars, isInitialized,
                   isMechanicVerified>>

\* updateMechanicInfo: returns at once without a mechanic session, throws
\* when offline, otherwise PUT /mechanics/me goes out with the token
updateMechanicInfo ==
    /\ isInitialized
    /\ UNCHANGED <<envVars, uiVars, startVars, discVars, netConnected, storeVars, apiVars, user, token,
                   isLoading, isInitialized, isMechanicVerified>>
    /\ IF user = None \/ token = None \/ (user # None /\ user.role # "mechanic")
       THEN /\ Complete(Done("updateMechanicInfo", Ok))
            /\ UNCHANGED ops
       ELSE IF ~netConnected
            THEN /\ Complete(Done("updateMechanicInfo", OfflineUpdateMsg))
                 /\ UNCHANGED ops
            ELSE /\ CanSend
                 /\ ops' = ops (+) SetToBag({Request("updateMechanicInfo", Null, Null, token)})
                 /\ UNCHANGED histVars

\* uploadCertificate: throws without a token and when offline, otherwise
\* POST /mechanics/upload-certificate goes out with the token
uploadCertificate ==
    /\ isInitialized
    /\ UNCHANGED <<envVars, uiVars, startVars, discVars, netConnected, storeVars, apiVars, user, token,
                   isLoading, isInitialized, isMechanicVerified>>
    /\ IF token = None
       THEN /\ Complete(Done("uploadCertificate", NotAuthenticatedMsg))
            /\ UNCHANGED ops
       ELSE IF ~netConnected
            THEN /\ Complete(Done("uploadCertificate", OfflineUploadMsg))
                 /\ UNCHANGED ops
            ELSE /\ CanSend
                 /\ ops' = ops (+) SetToBag({Request("uploadCertificate", Null, Null, token)})
                 /\ UNCHANGED histVars

\* The error of a mechanic call whose request did not end in a 2xx status
mechanicFailure(op, o) ==
    IF Rejected(o) THEN RejectionMsg(o)
    ELSE IF op = "updateMechanicInfo" THEN "Failed to update mechanic info"
         ELSE "Failed to upload certificate"

\* The mechanic call's request settles: any 2xx is success (the body is not
\* read), and a successful certificate upload marks the mechanic verified
mechanicSettle(r, o) ==
    /\ BagIn(r, ops)
    /\ r.op \in {"updateMechanicInfo", "uploadCertificate"}
    /\ isMechanicVerified' =
           IF r.op = "uploadCertificate" /\ ResponseOk(o) THEN TRUE
           ELSE isMechanicVerified
    /\ UNCHANGED <<envVars, uiVars, startVars, discVars, netConnected, storeVars, apiVars, user, token,
                   isLoading, isInitialized>>
    /\ Complete(Done(r.op, IF ResponseOk(o) THEN Ok ELSE mechanicFailure(r.op, o)))
    /\ ops' = ops (-) SetToBag({r})

\* signOut with "user" left in storage
signOutKeepsUser ==
    /\ isInitialized
    /\ stToken' = None
    /\ stUser' = stUser
    /\ user' = None
    /\ token' = None
    /\ UNCHANGED <<envVars, uiVars, startVars, discVars, netConnected, localUsers, apiVars, isLoading,
                   isInitialized, isMechanicVerified, ops>>
    /\ Complete([Done("signOut", Ok) EXCEPT !.again = (last.op = "signOut")])

\* signOut: both keys removed, user and token set to null
signOut ==
    /\ isInitialized
    /\ stToken' = None
    /\ stUser' = None
    /\ user' = None
    /\ token' = None
    /\ UNCHANGED <<envVars, uiVars, startVars, discVars, netConnected, localUsers, apiVars, isLoading,
                   isInitialized, isMechanicVerified, ops>>
    /\ Complete([Done("signOut", Ok) EXCEPT !.again = (last.op = "signOut")])

\* findApi, the provider's other start-up effect, begins: it awaits
\* findWorkingConnection() itself and does not go through api.ts's cache.
findApiStart ==
    /\ findApiPc = "idle"
    /\ findApiPc' = "running"
    /\ loops' = loops + 1
    /\ UNCHANGED <<envVars, uiVars, discVars, netConnected, storeVars, dynUrl, calls, socket,
                   writes, apiUrl, authVars, histVars>>

\* A findApi without its else branch: nothing found leaves no URL at all
findApiDoneNoDefault(healthy) ==
    /\ findApiPc = "running"
    /\ apiUrl' = findWorkingConnectionResult(
                     findWorkingConnectionUrls(platform, cloudUrl), healthy)
    /\ findApiPc' = "done"
    /\ UNCHANGED <<envVars, uiVars, discVars, netConnected, storeVars, apiVars, authVars, histVars>>

\* findWorkingConnection has returned to findApi: a URL found replaces
\* API_BASE_URL and apiUrl, otherwise apiUrl is set to API_BASE_URL. Every
\* probe of findWorkingConnection is inside a try, so the loop does not
\* throw and findApi's own catch has nothing to catch.
findApiDone(healthy) ==
    /\ findApiPc = "running"
    /\ LET workingUrl == findWorkingConnectionResult(
                             findWorkingConnectionUrls(platform, cloudUrl), healthy)
       IN apiUrl' = IF workingUrl # Null THEN workingUrl ELSE API_BASE_URL
    /\ findApiPc' = "done"
    /\ UNCHANGED <<envVars, uiVars, discVars, netConnected, storeVars, apiVars, authVars, histVars>>

\* A loadUser that restores the token whenever one is stored
loadUserTokenOnly(readOk) ==
    /\ ~isInitialized
    /\ IF readOk /\ stToken # None
       THEN token' = stToken /\ user' = stUser
       ELSE UNCHANGED <<token, user>>
    /\ isInitialized' = TRUE
    /\ UNCHANGED <<envVars, uiVars, startVars, discVars, netConnected, storeVars, apiVars, isLoading,
                   isMechanicVerified, ops>>
    /\ Complete(Done("loadUser", Ok))

\* loadUser, the provider's start-up effect: the stored session is restored
\* when both keys are read and present; isInitialized is set in its finally
loadUser(readOk) ==
    /\ ~isInitialized
    /\ IF readOk /\ stToken # None /\ stUser # None
       THEN token' = stToken /\ user' = stUser
       ELSE UNCHANGED <<token, user>>
    /\ isInitialized' = TRUE
    /\ UNCHANGED <<envVars, uiVars, startVars, discVars, netConnected, storeVars, apiVars, isLoading,
                   isMechanicVerified, ops>>
    /\ Complete(Done("loadUser", Ok))

\* NetInfo reports a change of connectivity
connectivityChange ==
    /\ netConnected' = ~netConnected
    /\ UNCHANGED <<envVars, uiVars, startVars, discVars, storeVars, apiVars, authVars, histVars>>

----------------------------------------------------------------------------
InitEnv ==
    /\ platform \in Platforms
    /\ cloudUrl \in {CloudPlaceholder, CloudDeployed}

InitDiscovery ==
    /\ dKind = "none"
    /\ dUrls = << >>
    /\ dIdx = 1
    /\ dProbes = << >>
    /\ dResult = Pending

\* The session an earlier run of the app may have left on the device
LeftUser == UserOf("c@d.com")

\* What an earlier run left on the device: nothing, or the token and user of
\* a server session of one of `left`
InitStorage(left) ==
    \/ stToken = None /\ stUser = None
    \/ \E u \in left : stToken = ServerToken(u.id) /\ stUser = u

-----------------------------------------------------------------------------
(* context/ThemeContext.tsx: DiagnosticsProvider, the connection to the      *)
(* vehicle. The setState calls of one synchronous stretch of code are one    *)
(* step: React renders after the stretch, not between its calls.             *)

MaxConnects == 2

ConnectFailedMsg == "Failed to connect to vehicle"

\* addDiagnosticCode appends an active code
addDiagnosticCode(codes) ==
    [total |-> codes.total + 1, active |-> codes.active + 1]

\* connect() up to its await: loading, "connecting", error cleared. The call
\* keeps the diagnosticCodes of the render it was made in.
connect ==
    /\ BagCardinality(connects) < MaxConnects
    /\ diagLoading' = TRUE
    /\ connectionStatus' = "connecting"
    /\ diagError' = Null
    /\ connects' = connects (+) SetToBag({[noCodes |-> diagnosticCodes.total = 0]})
    /\ UNCHANGED <<isConnected, vehicleData, diagnosticCodes, noteVars, fontVars, coreVars>>

\* The 2 s timer of a connect() is over and Math.random() decides: connected
\* with the sample data (and a sample code when the call had seen none), or
\* the error thrown and caught; the finally clears loading either way.
connectResolve(p, success) ==
    /\ BagIn(p, connects)
    /\ connects' = connects (-) SetToBag({p})
    /\ IF success
       THEN /\ isConnected' = TRUE
            /\ connectionStatus' = "connected"
            /\ vehicleData' = "sample"
            /\ diagnosticCodes' = IF p.noCodes
                                  THEN addDiagnosticCode(diagnosticCodes)
                                  ELSE diagnosticCodes
            /\ UNCHANGED diagError
       ELSE /\ diagError' = ConnectFailedMsg
            /\ connectionStatus' = "error"
            /\ UNCHANGED <<isConnected, vehicleData, diagnosticCodes>>
    /\ diagLoading' = FALSE
    /\ UNCHANGED <<noteVars, fontVars, coreVars>>

disconnect ==
    /\ isConnected' = FALSE
    /\ connectionStatus' = "disconnected"
    /\ vehicleData' = Null
    /\ diagError' = Null
    /\ UNCHANGED <<diagLoading, diagnosticCodes, connects, noteVars, fontVars, coreVars>>

\* The 1 s interval that runs while isConnected: updateVehicleData
vehicleTick ==
    /\ isConnected
    /\ vehicleData' = "live"
    /\ UNCHANGED <<isConnected, connectionStatus, diagLoading, diagError, diagnosticCodes,
                   connects, noteVars, fontVars, coreVars>>

\* clearAllCodes: every code inactive
clearAllCodes ==
    /\ diagnosticCodes' = [diagnosticCodes EXCEPT !.active = 0]
    /\ UNCHANGED <<isConnected, connectionStatus, diagLoading, diagError, vehicleData,
                   connects, noteVars, fontVars, coreVars>>

-----------------------------------------------------------------------------
(* context/NotificationsContext.tsx: NotificationsProvider. Time is kept     *)
(* relative to now: a notification with an expiresAt carries the time left   *)
(* until it, expiresAt - Date.now(), which the passing of time decreases and *)
(* of which the code only ever tests the sign. Timers and the periodic       *)
(* clean-up may run late, never early.                                       *)

MaxNotes == 2
\* expiresAt - Date.now() at the call: in the past, now, one unit of time ahead
TimesToExpiry == {-1, 0, 1}
\* the period of the clean-up, in the unit of time of the model
SweepEvery == 2

NoExpiry == [has |-> FALSE, left |-> 0]
ExpiresIn(k) == [has |-> TRUE, left |-> k]
\* what a caller may pass as expiresAt: nothing, a time in the past, now, later
Expiries == {NoExpiry} \cup {ExpiresIn(k) : k \in TimesToExpiry}

\* the three notifications the mount effect puts in, none with an expiresAt
SampleNotifications ==
    <<[id |-> 1, expiresAt |-> NoExpiry], [id |-> 2, expiresAt |-> NoExpiry],
      [id |-> 3, expiresAt |-> NoExpiry]>>

Elems(list) == {list[i] : i \in DOMAIN list}

\* what a step that turns list into kept has removed, with its cause
Removed(list, kept, by) ==
    {[id |-> n.id, expiresAt |-> n.expiresAt, by |-> by] : n \in Elems(list) \ Elems(kept)}

\* one unit of time passes
Later(e) == IF e.has /\ e.left > 0 THEN ExpiresIn(e.left - 1) ELSE e

tick ==
    /\ notifications' = [i \in DOMAIN notifications |->
                            [notifications[i] EXCEPT !.expiresAt = Later(@)]]
    /\ timers' = {[t EXCEPT !.left = IF @ > 0 THEN @ - 1 ELSE 0] : t \in timers}
    /\ toSweep' = IF toSweep > 0 THEN toSweep - 1 ELSE 0
    /\ removedNow' = {}
    /\ UNCHANGED <<notificationsEnabled, nextId, addCalls, diagVars, fontVars, coreVars>>

addNotification(e) ==
    /\ addCalls < MaxNotes
    /\ addCalls' = addCalls + 1
    /\ removedNow' = {}
    /\ IF ~notificationsEnabled
       THEN UNCHANGED <<notifications, timers, nextId>>
       ELSE /\ notifications' = <<[id |-> nextId, expiresAt |-> e]>> \o notifications
            /\ nextId' = nextId + 1
            /\ timers' = IF e.has /\ e.left > 0
                         THEN timers \cup {[id |-> nextId, left |-> e.left]}
                         ELSE timers
    /\ UNCHANGED <<notificationsEnabled, toSweep, diagVars, fontVars, coreVars>>

removeNotification(id, by) ==
    LET keep(n) == n.id # id
        kept == SelectSeq(notifications, keep)
    IN  /\ notifications' = kept
        /\ removedNow' = Removed(notifications, kept, by)

\* a caller removes a notification
removeNotificationCall(id) ==
    /\ removeNotification(id, "removeNotification")
    /\ UNCHANGED <<notificationsEnabled, timers, toSweep, nextId, addCalls, diagVars, fontVars, coreVars>>

\* the timer armed by addNotification is over
expiryTimer(t) ==
    /\ t \in timers
    /\ t.left = 0
    /\ timers' = timers \ {t}
    /\ removeNotification(t.id, "timer")
    /\ UNCHANGED <<notificationsEnabled, toSweep, nextId, addCalls, diagVars, fontVars, coreVars>>

\* A clean-up that tests only `expiresAt > now`
sweepDropsUntimed ==
    LET keep(n) == n.expiresAt.has /\ n.expiresAt.left > 0
        kept == SelectSeq(notifications, keep)
    IN  /\ toSweep = 0
        /\ toSweep' = SweepEvery
        /\ notifications' = kept
        /\ removedNow' = Removed(notifications, kept, "sweep")
        /\ UNCHANGED <<notificationsEnabled, timers, nextId, addCalls, diagVars, fontVars, coreVars>>

\* the clean-up of every minute: keeps what has no expiresAt or one after now
sweep ==
    LET keep(n) == ~n.expiresAt.has \/ n.expiresAt.left > 0
        kept == SelectSeq(notifications, keep)
    IN  /\ toSweep = 0
        /\ toSweep' = SweepEvery
        /\ notifications' = kept
        /\ removedNow' = Removed(notifications, kept, "sweep")
        /\ UNCHANGED <<notificationsEnabled, timers, nextId, addCalls, diagVars, fontVars, coreVars>>

clearAll ==
    /\ notifications' = <<>>
    /\ removedNow' = Removed(notifications, <<>>, "clearAll")
    /\ UNCHANGED <<notificationsEnabled, timers, toSweep, nextId, addCalls, diagVars, fontVars, coreVars>>

setNotificationsEnabled(enabled) ==
    /\ notificationsEnabled' = enabled
    /\ removedNow' = {}
    /\ UNCHANGED <<notifications, timers, toSweep, nextId, addCalls, diagVars, fontVars, coreVars>>

\* NotificationsProvider once mounted: the samples set, the clean-up scheduled
InitNotifications ==
    /\ notifications = SampleNotifications
    /\ notificationsEnabled = TRUE
    /\ timers = {}
    /\ toSweep = SweepEvery
    /\ nextId = Len(SampleNotifications) + 1
    /\ addCalls = 0
    /\ removedNow = {}

-----------------------------------------------------------------------------
(* utils/fontUtils.ts: loadFontsWithRetry                                    *)

MaxRetries == 3

\* what Font.loadAsync can throw, as the message loadFonts returns
FontErrors == {"asset not found", "font download failed"}

RECURSIVE Pow2(_)
Pow2(n) == IF n = 0 THEN 1 ELSE 2 * Pow2(n - 1)

\* Math.pow(2, attempt - 1) * 1000
RetryDelay(a) == Pow2(a - 1) * 1000

FontsLoaded(a) == [success |-> TRUE, error |-> Null, attempts |-> a]
FontsFailed(e, m) == [success |-> FALSE, error |-> e, attempts |-> m]

\* The call, up to the first await of loadFonts or, when the loop has nothing
\* to do, to the return
loadFontsWithRetryStart(m) ==
    /\ fontPc = "idle"
    /\ maxRetries' = m
    /\ lastError' = Null
    /\ attempt' = 1
    /\ fontErrors' = <<>>
    /\ fontDelays' = <<>>
    /\ IF 1 <= m
       THEN fontPc' = "loading" /\ UNCHANGED fontResult
       ELSE fontPc' = "returned" /\ fontResult' = FontsFailed(Null, m)
    /\ UNCHANGED <<diagVars, noteVars, coreVars>>

\* loadFonts is back with success
loadFontsOk ==
    /\ fontPc = "loading"
    /\ fontPc' = "returned"
    /\ fontResult' = FontsLoaded(attempt)
    /\ UNCHANGED <<maxRetries, attempt, lastError, fontErrors, fontDelays, diagVars,
                   noteVars, coreVars>>

\* loadFonts is back with the error e; a delay follows when wait holds
loadFontsFailedWaiting(e, wait) ==
    /\ fontPc = "loading"
    /\ lastError' = e
    /\ fontErrors' = Append(fontErrors, e)
    /\ IF wait
       THEN /\ fontPc' = "waiting"
            /\ fontDelays' = Append(fontDelays, RetryDelay(attempt))
            /\ UNCHANGED <<attempt, fontResult>>
       ELSE /\ attempt' = attempt + 1
            /\ UNCHANGED fontDelays
            /\ IF attempt + 1 <= maxRetries
               THEN fontPc' = "loading" /\ UNCHANGED fontResult
               ELSE fontPc' = "returned" /\ fontResult' = FontsFailed(e, maxRetries)
    /\ UNCHANGED <<maxRetries, diagVars, noteVars, coreVars>>

\* A retry loop that waits after every failed attempt
loadFontsFailedAlwaysWaits(e) ==
    loadFontsFailedWaiting(e, TRUE)

\* loadFonts is back with the error e: a delay before every attempt but after
\* the last
loadFontsFailed(e) ==
    loadFontsFailedWaiting(e, attempt < maxRetries)

\* The delay is over: the next turn of the loop
retryDelayOver ==
    /\ fontPc = "waiting"
    /\ attempt' = attempt + 1
    /\ IF attempt + 1 <= maxRetries
       THEN fontPc' = "loading" /\ UNCHANGED fontResult
       ELSE fontPc' = "returned" /\ fontResult' = FontsFailed(lastError, maxRetries)
    /\ UNCHANGED <<maxRetries, lastError, fontErrors, fontDelays, diagVars, noteVars,
                   coreVars>>

\* a caller has the result; the function can be called again
loadFontsWithRetryReturned ==
    /\ fontPc = "returned"
    /\ fontPc' = "idle"
    /\ UNCHANGED <<maxRetries, attempt, lastError, fontResult, fontErrors, fontDelays,
                   diagVars, noteVars, coreVars>>

\* no call of loadFontsWithRetry made yet
InitFonts ==
    /\ fontPc = "idle"
    /\ maxRetries = 0
    /\ attempt = 0
    /\ lastError = Null
    /\ fontResult = FontsFailed(Null, 0)
    /\ fontErrors = <<>>
    /\ fontDelays = <<>>

\* DiagnosticsProvider as constructed
InitDiagnostics ==
    /\ isConnected = FALSE
    /\ connectionStatus = "disconnected"
    /\ diagLoading = FALSE
    /\ diagError = Null
    /\ vehicleData = Null
    /\ diagnosticCodes = [total |-> 0, active |-> 0]
    /\ connects = EmptyBag

\* The provider as constructed (every useState initial value) and api.ts as
\* loaded
InitProvider ==
    /\ localUsers = {}
    /\ dynUrl = Null
    /\ calls = [c \in Calls |-> IdleCall]
    /\ socket = IdleSocket
    /\ loops = 0
    /\ writes = 0
    /\ apiUrl = API_BASE_URL
    /\ findApiPc = "idle"
    /\ user = None
    /\ token = None
    /\ isLoading = FALSE
    /\ isInitialized = FALSE
    /\ isMechanicVerified = FALSE
    /\ ops = EmptyBag
    /\ last = NoCall
    /\ before = FALSE
    /\ quiet = FALSE
    /\ InitDiagnostics
    /\ InitNotifications
    /\ InitFonts

InitApp == InitStorage({LeftUser}) /\ InitProvider

\* The repository as it stands: the cloud URL is still the placeholder
InitShipped ==
    /\ platform \in Platforms
    /\ cloudUrl = CloudPlaceholder

Init ==
    /\ platform = "android"
    /\ cloudUrl = CloudPlaceholder
    /\ InitDiscovery
    /\ InitApp
    /\ netConnected \in BOOLEAN

\* The probe loops on a fresh install
InitProbing ==
    InitEnv /\ InitDiscovery /\ InitApp /\ netConnected = TRUE /\ stToken = None

\* The dispatcher with a connection
InitDispatch == InitShipped /\ InitDiscovery /\ InitApp /\ netConnected = TRUE

NextDiscovery ==
    \/ findWorkingConnectionStart
    \/ testBackendConnectionStart
    \/ discoveryStep
    \/ discoveryExhausted
    \/ discoveryReturn

SpecDiscovery == InitProbing /\ [][NextDiscovery]_vars

NextDispatch ==
    \/ \E readOk \in BOOLEAN : loadUser(readOk)
    \/ \E c \in Calls, op \in DispatcherOps : callStart(c, op)
    \/ \E c \in Calls, healthy \in SUBSET CandidateUrls : findWorkingApiUrlDone(c, healthy)
    \/ \E c \in Calls, readOk \in BOOLEAN : callSend(c, readOk)
    \/ \E c \in Calls, o \in FetchOutcomes : callSettle(c, o)

SpecDispatch == InitDispatch /\ [][NextDispatch]_vars

\* URL resolution on a fresh install: the provider's findApi and the callers
\* of api.ts's findWorkingApiUrl. What the server answers to a request does
\* not matter here, so two outcomes stand for all.
InitResolve ==
    /\ InitShipped
    /\ InitDiscovery
    /\ InitStorage({})
    /\ InitProvider
    /\ netConnected = TRUE

ResolveOutcomes == {"ok_json", "network_error"}

NextResolve ==
    \/ loadUser(TRUE)
    \/ findApiStart
    \/ \E healthy \in SUBSET CandidateUrls : findApiDone(healthy)
    \/ \E c \in Calls : callStart(c, "apiCall")
    \/ \E c \in Calls, healthy \in SUBSET CandidateUrls : findWorkingApiUrlDone(c, healthy)
    \/ connectToNotificationsStart
    \/ \E healthy \in SUBSET CandidateUrls : connectToNotificationsDone(healthy)
    \/ \E c \in Calls : callSend(c, TRUE)
    \/ \E c \in Calls, o \in ResolveOutcomes : callSettle(c, o)

SpecResolve == InitResolve /\ [][NextResolve]_vars

NextSession ==
    \/ \E readOk \in BOOLEAN : loadUser(readOk)
    \/ connectivityChange
    \/ \E e \in Emails, p \in Passwords, dbOk \in BOOLEAN : signInOffline(e, p, dbOk)
    \/ \E e \in Emails, p \in Passwords : signInOnline(e, p)
    \/ \E r \in BagToSet(ops), o \in HttpOutcomes, u \in Users, dbOk \in BOOLEAN :
           signInSettle(r, o, u, dbOk)
    \/ \E e \in Emails, p \in Passwords : signUpOffline(e, p)
    \/ \E e \in Emails, p \in Passwords : signUpOnline(e, p)
    \/ \E r \in BagToSet(ops), o \in HttpOutcomes, u \in Users, dbOk \in BOOLEAN :
           signUpSettle(r, o, u, dbOk)
    \/ signOut

SpecSession == Init /\ [][NextSession]_vars

\* Calls that wait for the network, for the question whether each of them
\* ends: a sign-in (sent through fetchWithTimeout) and the dispatcher's calls
\* (sent through fetch), on a fresh install with a connection
InitTimers ==
    /\ platform = "android"
    /\ cloudUrl = CloudPlaceholder
    /\ InitDiscovery
    /\ InitStorage({})
    /\ InitProvider
    /\ netConnected = TRUE

\* The server, or the network, answers a request: nothing obliges it to
serverAnswers ==
    \/ \E c \in Calls, o \in FetchOutcomes : callSettle(c, o)
    \/ \E r \in BagToSet(ops), o \in HttpOutcomes \ {"timeout"}, u \in Users :
           signInSettle(r, o, u, TRUE)

\* fetchWithTimeout's setTimeout callback runs controller.abort(): the fetch
\* rejects and signIn's catch rethrows. apiCall and the uploads arm no timer.
timerFires ==
    \E r \in BagToSet(ops), u \in Users : signInSettle(r, "timeout", u, TRUE)

\* The steps of a call that need nothing from the server: the discovery
\* (whose probes are aborted by their own timers) and the token read
callProceeds ==
    \/ \E c \in Calls, healthy \in SUBSET CandidateUrls : findWorkingApiUrlDone(c, healthy)
    \/ \E c \in Calls : callSend(c, TRUE)

NextTimers ==
    \/ loadUser(TRUE)
    \/ \E c \in Calls, op \in DispatcherOps : callStart(c, op)
    \/ \E e \in Emails, p \in Passwords : signInOnline(e, p)
    \/ callProceeds
    \/ timerFires
    \/ serverAnswers

\* The JavaScript event loop runs every ready continuation and every timer
\* that is due; it cannot make a server answer.
SpecTimers ==
    /\ InitTimers
    /\ [][NextTimers]_vars
    /\ WF_vars(loadUser(TRUE))
    /\ WF_vars(callProceeds)
    /\ WF_vars(timerFires)

\* Start-up on a device where earlier runs may have left either key without
\* the other (api.ts removes and writes "authToken" alone): the two start-up
\* effects, then the calls of a restored session
InitStartup ==
    /\ platform = "android"
    /\ cloudUrl = CloudPlaceholder
    /\ InitDiscovery
    /\ stToken \in {None, OfflineToken} \union {ServerToken(u.id) : u \in Users}
    /\ stUser \in {None} \union Users
    /\ InitProvider
    /\ netConnected \in BOOLEAN

NextStartup ==
    \/ \E readOk \in BOOLEAN : loadUser(readOk)
    \/ findApiStart
    \/ \E healthy \in SUBSET CandidateUrls : findApiDone(healthy)
    \/ connectivityChange
    \/ updateMechanicInfo
    \/ uploadCertificate
    \/ \E r \in BagToSet(ops), o \in HttpOutcomes : mechanicSettle(r, o)
    \/ signOut

\* Both effects are started when the provider mounts, and each of their
\* awaits settles: React and the event loop run them to their end.
SpecStartup ==
    /\ InitStartup
    /\ [][NextStartup]_vars
    /\ WF_vars(\E readOk \in BOOLEAN : loadUser(readOk))
    /\ WF_vars(findApiStart)
    /\ WF_vars(\E healthy \in SUBSET CandidateUrls : findApiDone(healthy))

\* The vehicle connection, on its own
InitVehicle ==
    /\ platform = "android"
    /\ cloudUrl = CloudPlaceholder
    /\ InitDiscovery
    /\ InitStorage({})
    /\ InitProvider
    /\ netConnected = TRUE

NextVehicle ==
    \/ connect
    \/ \E p \in BagToSet(connects), success \in BOOLEAN : connectResolve(p, success)
    \/ disconnect
    \/ vehicleTick
    \/ clearAllCodes

SpecVehicle == InitVehicle /\ [][NextVehicle]_vars

\* Calls of loadFontsWithRetry, one after the other
NextFonts ==
    \/ \E m \in 0..MaxRetries : loadFontsWithRetryStart(m)
    \/ loadFontsOk
    \/ \E e \in FontErrors : loadFontsFailed(e)
    \/ retryDelayOver
    \/ loadFontsWithRetryReturned

SpecFonts == InitVehicle /\ [][NextFonts]_vars

\* The notifications, on their own, while time passes
NextNotifications ==
    \/ tick
    \/ \E e \in Expiries : addNotification(e)
    \/ \E n \in Elems(notifications) : removeNotificationCall(n.id)
    \/ \E t \in timers : expiryTimer(t)
    \/ sweep
    \/ clearAll
    \/ \E enabled \in BOOLEAN : setNotificationsEnabled(enabled)

\* Time passes and a clean-up that is due runs; a timer may be as late as it
\* likes
SpecNotifications ==
    /\ InitVehicle
    /\ [][NextNotifications]_vars
    /\ WF_vars(tick)
    /\ WF_vars(sweep)

\* The mechanic's calls on a session restored from storage
NextMechanic ==
    \/ \E readOk \in BOOLEAN : loadUser(readOk)
    \/ connectivityChange
    \/ updateMechanicInfo
    \/ uploadCertificate
    \/ \E r \in BagToSet(ops), o \in HttpOutcomes : mechanicSettle(r, o)
    \/ signOut

InitMechanic ==
    /\ platform = "android"
    /\ cloudUrl = CloudPlaceholder
    /\ InitDiscovery
    /\ InitStorage(Users)
    /\ InitProvider
    /\ netConnected \in BOOLEAN

SpecMechanic == InitMechanic /\ [][NextMechanic]_vars

----------------------------------------------------------------------------
(* Discovery: first healthy candidate, and exhaustion                       *)

\* The outcomes C2 counts as a failed probe.
FailedProbe(o) == o \in {"status_err", "network_error", "timeout"}

\* C1: if candidate k is the first in list order whose health request returns
\* a success status, the discovery call returns exactly candidate k, has probed
\* candidates 1..k in list order and has probed none after k
\* (findWorkingConnection and testBackendConnection alike).
C1_FirstSuccessStatusWins ==
    dKind # "none" =>
        \A k \in 1..Len(dProbes) :
            ( /\ SuccessStatus(dProbes[k].outcome)
              /\ \A j \in 1..(k - 1) : ~SuccessStatus(dProbes[j].outcome) )
            => /\ dResult = dUrls[k]
               /\ Len(dProbes) = k
               /\ \A j \in 1..k : dProbes[j].url = dUrls[j]

\* C2: when every probe of a discovery call failed (network error, timeout or
\* non-success status) the call completes normally with NotFound after having
\* tried the whole list, and no discovery call ever ends in an exception.
C2_AllFailNotFound ==
    /\ dResult # Threw
    /\ ( /\ dKind # "none"
         /\ dResult # Pending
         /\ \A i \in 1..Len(dProbes) : FailedProbe(dProbes[i].outcome) )
       => (dResult = Null /\ Len(dProbes) = Len(dUrls))

C2_Witness ==
    /\ dKind = "testBackendConnection"
    /\ dResult = Null
    /\ Len(dProbes) = Len(dUrls)
    /\ \E i \in 1..Len(dProbes) : dProbes[i].outcome = "timeout"
    /\ \E i \in 1..Len(dProbes) : dProbes[i].outcome = "network_error"
    /\ \E i \in 1..Len(dProbes) : dProbes[i].outcome = "status_err"
    /\ \A i \in 1..Len(dProbes) : FailedProbe(dProbes[i].outcome)

----------------------------------------------------------------------------
(* The dispatcher and a 401                                                 *)

\* C3: an apiCall whose request is answered 401 removes the persisted token
\* exactly once and fails with "Not authenticated"; after it no token is
\* persisted.
C3_ApiCall401ClearsToken ==
    [][ \A c \in Calls :
            (calls[c].op = "apiCall" /\ callSettle(c, "unauthorized"))
            => /\ last'.op = "apiCall"
               /\ last'.removes = 1
               /\ IsNotAuthenticated(last'.result)
               /\ stToken' = None ]_vars

\* an apiCall failed with "Not authenticated" and took away the token that
\* the restored session had left in storage
C3_Witness ==
    /\ last.op = "apiCall"
    /\ IsNotAuthenticated(last.result)
    /\ last.removes = 1
    /\ stUser # None
    /\ token # None
    /\ stToken = None

C5_Every401IsNotAuthenticated ==
    [][ \A c \in Calls :
            callSettle(c, "unauthorized")
            => /\ stToken' = None
               /\ IsNotAuthenticated(last'.result)
               /\ ~IsNetworkError(last'.result) ]_vars

\* C6: a 401 on any authenticated call while the session is Authenticated
\* leaves the session Unauthenticated: user and token null in memory, both
\* keys removed from storage.
C6_401EndsSession ==
    [][ ( /\ Authenticated
          /\ \/ \E c \in Calls : callSettle(c, "unauthorized")
             \/ \E r \in BagToSet(ops) : mechanicSettle(r, "unauthorized") )
        => SessionEmpty' ]_vars

----------------------------------------------------------------------------
(* The session manager offline, and the round trip                          *)

\* The user a row of the table stands for
RowUser(r) == [kind |-> "user", id |-> r.id, email |-> r.email, role |-> r.role]

\* What C7 promises of an offline signIn: Authenticated with the cached user
\* of that email and password and an offline token, both persisted
OfflineSignedIn(email, password) ==
    /\ last'.op = "signIn"
    /\ last'.result = Ok
    /\ Authenticated'
    /\ \E r \in MatchingRows(email, password) : user' = RowUser(r)
    /\ token' # None
    /\ token'.kind = "offline"
    /\ stToken' = token'
    /\ stUser' = user'

C8_OfflineMissFails ==
    (last.op = "signIn" /\ last.exchange = "none" /\ ~last.hit)
    => /\ last.result = OfflineAuthMsg
       /\ ~last.changed

\* an offline signIn was refused for want of a matching row while the cache
\* held a row of another email or password and a session was in memory
C8_Witness ==
    /\ last.op = "signIn"
    /\ last.result = OfflineAuthMsg
    /\ ~last.hit
    /\ ~netConnected
    /\ localUsers # {}
    /\ Authenticated
    /\ stToken # None

\* C9: signUp offline fails with the offline-registration message for every
\* input, sends no request, leaves storage, cache and the in-memory session
\* as they were, so that an Unauthenticated session stays Unauthenticated.
C9_OfflineSignUpFails ==
    [][ \A e \in Emails, p \in Passwords :
            signUpOffline(e, p)
            => /\ last'.op = "signUp"
               /\ last'.result = OfflineRegisterMsg
               /\ ops' = ops
               /\ calls' = calls
               /\ SessionState' = SessionState
               /\ (~Authenticated => ~Authenticated') ]_vars

\* an offline signUp was refused on an empty session, nothing in flight
C9_Witness ==
    /\ last.op = "signUp"
    /\ last.result = OfflineRegisterMsg
    /\ ~netConnected
    /\ SessionEmpty
    /\ localUsers = {}
    /\ ops = EmptyBag

\* C10: a signIn that succeeded on an empty session (storage and memory),
\* followed immediately by signOut, leaves the persisted token and user absent
\* and the in-memory user and token null.
C10_SignInSignOutRoundTrip ==
    (last.op = "signOut" /\ before) => SessionEmpty

\* signOut completed right after a successful signIn on an empty session
C10_Witness ==
    /\ last.op = "signOut"
    /\ before
    /\ SessionEmpty
    /\ localUsers # {}

----------------------------------------------------------------------------
(* signOut twice, and the mechanic's calls without a token or a connection  *)

\* C11: signOut ends without error with the persisted token and user absent
\* and the in-memory user and token null, the cache untouched; a signOut right
\* after a signOut, and a signOut on an Unauthenticated session, changes
\* nothing of storage, cache and in-memory session.
C11_SignOutIdempotent ==
    [][ signOut
        => /\ last'.op = "signOut"
           /\ last'.result = Ok
           /\ SessionEmpty'
           /\ localUsers' = localUsers
           /\ (last.op = "signOut" \/ SessionEmpty) => SessionState' = SessionState ]_vars

\* a second signOut completed right after a first, the cache holding a row
C11_Witness ==
    /\ last.op = "signOut"
    /\ last.again
    /\ last.result = Ok
    /\ SessionEmpty
    /\ localUsers # {}

\* C12: uploadCertificate and updateMechanicInfo called while the provider
\* holds no token both fail with "Not authenticated" and send no request.
C12_NoTokenNotAuthenticated ==
    [][ (token = None /\ (updateMechanicInfo \/ uploadCertificate))
        => /\ IsNotAuthenticated(last'.result)
           /\ ops' = ops ]_vars

\* The offline failure of a mechanic's call, by its message
IsOfflineAction(msg) == msg \in {OfflineUpdateMsg, OfflineUploadMsg}

\* C13: uploadCertificate and updateMechanicInfo called with a token while
\* NetInfo reports no connection fail with the offline message of the call,
\* send no request and leave token, user and isMechanicVerified unchanged.
C13_OfflineActionUnavailable ==
    [][ (token # None /\ ~netConnected /\ (updateMechanicInfo \/ uploadCertificate))
        => /\ IsOfflineAction(last'.result)
           /\ ops' = ops
           /\ token' = token
           /\ user' = user
           /\ isMechanicVerified' = isMechanicVerified ]_vars

----------------------------------------------------------------------------
(* The local credential cache                                               *)

\* An online signIn or signUp for request r ends in a parsed 2xx answer
\* carrying the user of its email, saveLocalUser's insert working or not as
\* dbOk tells
OnlineSuccess(r, dbOk) ==
    \/ signInSettle(r, "ok_json", UserOf(r.email), dbOk)
    \/ signUpSettle(r, "ok_json", UserOf(r.email), dbOk)

\* The cache holds the credentials of r, and an offline signIn with them
\* would find the user
Mirrored(r) ==
    /\ MatchingRows(r.email, r.password) # {}
    /\ checkLocalUser(r.email, r.password, TRUE) # None
    /\ checkLocalUser(r.email, r.password, TRUE).email = r.email

C15_OnlineIgnoresCache ==
    (last.op = "signIn" /\ last.exchange # "none")
    => /\ (last.result = Ok) <=> (last.exchange = "ok")
       /\ last.exchange = "failed" => ~last.changed

\* an online signIn failed although the cache held its email and password,
\* and no session is in memory
C15_Witness ==
    /\ last.op = "signIn"
    /\ last.exchange = "failed"
    /\ last.hit
    /\ last.result \notin {Ok, OfflineAuthMsg}
    /\ user = None
    /\ token = None

\* The URLs this device probes, and what a resolution may end with: one of
\* them or the default
Probed == {findWorkingConnectionUrls(platform, cloudUrl)[i] :
              i \in 1..Len(findWorkingConnectionUrls(platform, cloudUrl))}
Resolvable == Probed \union {getApiBaseUrl(platform, cloudUrl)}

\* Discovery runs in which no candidate answers, or exactly one does
LoneOutcomes == {{}} \union {{u} : u \in CandidateUrls}
Resolved(h) ==
    IF h \cap Probed = {} THEN getApiBaseUrl(platform, cloudUrl)
    ELSE CHOOSE u \in h : TRUE

\* C16: discovery failure is never fatal. Whatever findWorkingApiUrl hands to
\* a caller, and whatever findApi leaves in apiUrl, is a URL: a candidate of
\* this device or the default. When no candidate answers it is the default,
\* when one candidate answers it is that candidate.
C16_DiscoveryNeverFatal ==
    /\ [](/\ \A c \in Calls : calls[c].pc \in {"resolved", "sent"} => calls[c].url \in Resolvable
          /\ socket.pc = "open" => socket.base \in Resolvable
          /\ dynUrl # Null => dynUrl \in Resolvable
          /\ apiUrl \in Resolvable)
    /\ [][\A h \in LoneOutcomes :
            /\ \A c \in Calls : findWorkingApiUrlDone(c, h) =>
                   calls'[c].url = Resolved(h) /\ dynUrl' = Resolved(h)
            /\ connectToNotificationsDone(h) => socket'.base = Resolved(h)
            /\ findApiDone(h) => apiUrl' = Resolved(h) /\ findApiPc' = "done"]_vars

\* On the web no candidate exists, so every discovery reports NotFound: the
\* provider, a dispatcher call and the notification socket all went on with
\* the default
C16_Witness ==
    /\ platform = "web"
    /\ findApiPc = "done" /\ apiUrl = getApiBaseUrl(platform, cloudUrl)
    /\ socket.pc = "open" /\ socket.base = getApiBaseUrl(platform, cloudUrl)
    /\ \E c \in Calls : calls[c].pc = "sent" /\ calls[c].url = getApiBaseUrl(platform, cloudUrl)

\* C17: a request carries Content-Type: application/json exactly when its
\* body is not multipart, for every request of the session manager that is
\* in flight and every request the dispatcher has sent.
C17_JsonIffNotMultipart ==
    /\ \A r \in BagToSet(ops) : (r.contentType = JsonType) <=> (r.body # "multipart")
    /\ \A c \in Calls : calls[c].pc = "sent" =>
           ((calls[c].contentType = JsonType) <=> (BodyOf(calls[c].op) # "multipart"))

\* Non-2xx statuses other than 401, and the messages apiCall throws for them
OtherErrors == {"error_detail", "error_nodetail", "error_plain"}
RequestFailedMsgs == {ServerDetail, "API request failed", "Network error"}

\* C18 as stated: only a 401 clears credentials. An apiCall answered with
\* another non-2xx status fails with RequestFailed, with the server's detail
\* when the body has one, and every 2xx answer returns the parsed body; in
\* both cases the persisted token and user stay as they were.
C18_Only401Clears ==
    [][ \A c \in Calls, o \in OtherErrors \union {"ok_json", "ok_other"} :
            (calls[c].op = "apiCall" /\ callSettle(c, o))
            => /\ stToken' = stToken /\ stUser' = stUser
               /\ last'.removes = 0
               /\ o \in OtherErrors => last'.result \in RequestFailedMsgs
               /\ o = "error_detail" => last'.result = ServerDetail
               /\ ResponseOk(o) => last'.result = Ok ]_vars

\* C18, amended: the same, except that a 2xx answer returns the parsed body
\* only when the body is JSON; with any other body response.json() rejects
\* and the call fails with the parser's error. No dispatcher operation
\* touches the persisted token or user on an answer that is not a 401.
C18_Only401ClearsParsed ==
    [][ \A c \in Calls, o \in FetchOutcomes \ {"unauthorized"} :
            callSettle(c, o)
            => /\ stToken' = stToken /\ stUser' = stUser
               /\ last'.removes = 0
               /\ calls[c].op = "apiCall" =>
                     /\ o \in OtherErrors => last'.result \in RequestFailedMsgs
                     /\ o = "error_detail" => last'.result = ServerDetail
                     /\ o = "ok_json" => last'.result = Ok
                     /\ o = "ok_other" => last'.result = JsonParseMsg ]_vars

\* an apiCall failed with the server's detail and the restored session's
\* token and user are still in storage
C18_Witness ==
    /\ last.op = "apiCall"
    /\ last.result = ServerDetail
    /\ last.removes = 0
    /\ stToken # None /\ stUser # None

\* The base URLs that calls of api.ts currently hold
UrlsInUse ==
    {calls[c].url : c \in {d \in Calls : calls[d].pc \in {"resolved", "sent"}}}
    \union (IF socket.pc = "open" THEN {socket.base} ELSE {})

\* C19: however the calls interleave, DYNAMIC_API_BASE_URL is assigned at most
\* once, the probe loop findWorkingConnection is run at most once, and all
\* calls hold the same base URL.
C19_ResolvedOnce ==
    /\ writes <= 1
    /\ loops <= 1
    /\ Cardinality(UrlsInUse) <= 1

\* C20: once findWorkingApiUrl has returned a URL, the cache keeps it for
\* good, and every call that starts afterwards is given that URL at once,
\* without a probe loop; the default cached after a failed discovery included.
C20_CacheSticks ==
    [][ dynUrl # Null =>
           /\ dynUrl' = dynUrl
           /\ \A c \in Calls : (calls[c].pc = "idle" /\ calls'[c].pc # "idle") =>
                  /\ calls'[c].pc = "resolved" /\ calls'[c].url = dynUrl
                  /\ loops' = loops
           /\ (socket.pc # "discovering" /\ socket' # socket) =>
                  /\ socket'.pc = "open" /\ socket'.base = dynUrl
                  /\ loops' = loops ]_vars

\* C21: every network call ends, with a response or a failure, even when the
\* server never answers: a sign-in in flight and a dispatcher call that has
\* been started both come to their end.
C21_EveryCallCompletes ==
    /\ (ops # EmptyBag) ~> (ops = EmptyBag)
    /\ \A c \in Calls : (calls[c].pc # "idle") ~> (calls[c].pc = "idle")

\* C22: within one discovery call the probes made are the candidates in list
\* order, each once: never more probes than candidates, no URL probed twice,
\* and while the call is undecided every probe made has moved it one
\* candidate on, so it ends after at most Len(dUrls) probes.
C22_EachCandidateOnce ==
    dKind # "none" =>
        /\ Len(dProbes) <= Len(dUrls)
        /\ \A j \in 1..Len(dProbes) : dProbes[j].url = dUrls[j]
        /\ \A i, j \in 1..Len(dProbes) : dProbes[i].url = dProbes[j].url => i = j
        /\ dResult = Pending => dIdx = Len(dProbes) + 1
        /\ dIdx <= Len(dUrls) + 1

\* findWorkingConnection with a deployed backend on Android went through all
\* five candidates, some of them timing out, and ended with null
C22_Witness ==
    /\ dKind = "findWorkingConnection"
    /\ Len(dUrls) = 5
    /\ Len(dProbes) = 5
    /\ dResult = Null
    /\ dProbes[1].outcome = "timeout" /\ dProbes[5].outcome = "timeout"

\* The signIn and signUp calls awaiting their answer
AuthInFlight == {r \in BagToSet(ops) : r.op \in {"signIn", "signUp"}}

\* C23: isLoading is true whenever a signIn or signUp is in flight and false
\* once every one of them has completed, failed or not (a signIn made while
\* offline starts and completes within one step of the model).
C23_LoadingIffInFlight ==
    isLoading <=> (AuthInFlight # {})

\* C24: the session record is stored as a unit. Between operations the
\* persisted token is present exactly when the persisted user is.
C24_SessionStoredAsUnit ==
    (stToken = None) <=> (stUser = None)

\* C25: once signOut has completed and no signIn or signUp has been started
\* since, the session is Unauthenticated: nothing persisted, nothing in
\* memory, whatever was still awaiting its answer when signOut ran.
C25_SignedOutStaysOut ==
    quiet => SessionEmpty

\* C26: loadUser restores a session only when both keys are stored, and then
\* the stored one; otherwise token and user stay null. isInitialized becomes
\* true in the end, whatever the storage reads do, and is never reset.
C26_LoadUserRestoresBothOrNone ==
    /\ [](last.op = "loadUser" =>
            /\ isInitialized
            /\ \/ user = None /\ token = None
               \/ /\ stToken # None /\ stUser # None
                  /\ token = stToken /\ user = stUser)
    /\ [][isInitialized => isInitialized']_vars
    /\ <>isInitialized

\* the user key was stored without its token, and start-up left the session
\* Unauthenticated
C26_Witness ==
    /\ last.op = "loadUser"
    /\ isInitialized
    /\ stToken = None /\ stUser # None
    /\ user = None /\ token = None

\* The table has one row at most for an email and for a user id
OneRowEach ==
    \A r1, r2 \in localUsers : (r1.id = r2.id \/ r1.email = r2.email) => r1 = r2

\* After request r the table's only row for its email holds its password, and
\* an offline lookup with any other password finds nothing
LatestOnly(r) ==
    /\ \A row \in localUsers : row.email = r.email => row.password = r.password
    /\ \E row \in localUsers : row.email = r.email
    /\ \A p \in Passwords \ {r.password} : checkLocalUser(r.email, p, TRUE) = None

C28_StatusAgreesWithFlags ==
    /\ isConnected <=> (connectionStatus = "connected")
    /\ diagLoading <=> (connectionStatus = "connecting")

IdsOf(list) == {n.id : n \in Elems(list)}

\* C29: a timer or the clean-up removes a notification only if it has an
\* expiresAt that is not after now, so one without expiresAt goes only by
\* removeNotification or clearAll; no step taken while notificationsEnabled is
\* false adds a notification; and the notifications with an expiresAt, in the
\* past at add time or not, are eventually all gone.
C29_ExpiryRemovesInTime ==
    /\ [](\A r \in removedNow :
            r.by \in {"timer", "sweep"} => r.expiresAt.has /\ r.expiresAt.left <= 0)
    /\ [][~notificationsEnabled => IdsOf(notifications') \subseteq IdsOf(notifications)]_vars
    /\ (\E n \in Elems(notifications) : n.expiresAt.has)
           ~> (\A n \in Elems(notifications) : ~n.expiresAt.has)

\* An addNotification refused while disabled, and the clean-up removing a
\* notification whose expiresAt was in the past when it was added
C29_Witness ==
    /\ addCalls > nextId - (Len(SampleNotifications) + 1)
    /\ \E r \in removedNow : r.by = "sweep" /\ r.expiresAt = ExpiresIn(-1)

\* the loadFonts calls made so far by the call in progress or just returned
LoadFontsCalls == Len(fontErrors) + (IF fontPc = "loading" THEN 1 ELSE 0)

\* C30: loadFontsWithRetry never calls loadFonts more than maxRetries times;
\* when it returns success it has made no call after the first successful
\* one and attempts is the index of that call; when it returns failure every
\* one of the maxRetries calls failed, attempts is maxRetries and error is the
\* error of the last call; it has waited once between two calls and not after
\* the last.
C30_RetryStopsAtFirstSuccess ==
    /\ fontPc # "idle" => LoadFontsCalls <= maxRetries
    /\ fontPc = "returned" /\ fontResult.success =>
           /\ fontResult.attempts = Len(fontErrors) + 1
           /\ fontResult.error = Null
           /\ Len(fontDelays) = Len(fontErrors)
    /\ fontPc = "returned" /\ ~fontResult.success =>
           /\ Len(fontErrors) = maxRetries
           /\ fontResult.attempts = maxRetries
           /\ fontResult.error = IF fontErrors = <<>> THEN Null
                                  ELSE fontErrors[Len(fontErrors)]
           /\ Len(fontDelays) = IF maxRetries = 0 THEN 0 ELSE maxRetries - 1
    /\ \A i \in DOMAIN fontDelays : fontDelays[i] = RetryDelay(i)

\* Three attempts failed with different errors, two delays waited for
C30_Witness ==
    /\ fontPc = "returned"
    /\ fontResult = FontsFailed("font download failed", 3)
    /\ fontErrors = <<"asset not found", "asset not found", "font download failed">>
    /\ fontDelays = <<1000, 2000>>

============================================================================
